---- MODULE Spec2Model ----
(***************************************************************************)
(* Model of the process-scoped loopback capture session                    *)
(* (class LoopbackCapture and its nested AudioInterfaceActivateHandler,    *)
(* native-audio-loopback/src-cpp/ApplicationLoopback/LoopbackTest.cpp).    *)
(*                                                                         *)
(* Three kinds of thread run the code: the caller thread (constructor,     *)
(* Initialize, StopCapture, destructor), the platform thread that invokes  *)
(* ActivateCompleted, and the capture threads made by CreateThread.  A     *)
(* program counter "lNNN" means that the thread is executing source line   *)
(* NNN; the step that leaves the line completes it and applies its effect. *)
(*                                                                         *)
(* Two further programs of the repository are modelled after the session,  *)
(* each under a specification of its own: the command-line program (wmain  *)
(* of ApplicationLoopback.cpp, MainSpec) and the process enumerator        *)
(* (ProcessList.cpp, ListSpec).                                            *)
(***************************************************************************)
EXTENDS Integers, Sequences, FiniteSets

VARIABLES
    m_audioClient,    \* session field: 0 = null, k = stream of activation k
    m_captureClient,  \* session field: 0 = null, k = packet reader of stream k
    m_capturing,      \* session field: std::atomic<bool>
    m_captureThread,  \* session field: Uninit, 0 = NULL, t = handle of thread t
    m_captureEvent,   \* session field: "evt" (the handle) or "NULL"
    hAudioClient,     \* the handler's own m_audioClient: 0 = null, k = stream k
    callerPc,         \* caller thread: "idle" or a line of StopCapture
    stopHr,           \* local hr of the StopCapture in progress
    destroyed,        \* ~LoopbackCapture has run
    crashed,          \* the process died on a use of the destroyed session
    pending,          \* activations submitted and not yet called back
    nAct,             \* number of ActivateCompleted calls begun
    cbPc,             \* callback thread: "idle" or a line of the handler
    readyHr,          \* local hr of OnAudioClientReady in the running callback
    thr,              \* capture threads: thread id -> program counter
    stream,           \* platform streams: activation id -> state; a stream
                      \* no interface pointer refers to is "released"
    nStart,           \* successful IAudioClient::Start calls (platform side)
    nStop,            \* IAudioClient::Stop calls (platform side)
    queue,            \* packets queued in the stream the packet reader reads
    lastCall,         \* last packet-reader call seen by the stream
    sink,             \* buffers handed to the output sink
    openEvents,       \* kernel handle table of the process: event handles
    openThreads,      \* kernel handle table of the process: thread handles
    badCloses,        \* CloseHandle calls on a stray value, no handle of ours
    comInit,          \* outstanding CoInitializeEx count
    punk,             \* references the running callback holds on the object
                      \* GetActivateResult returned (punkAudioInterface)
    fails,            \* packet queries the packet reader has failed in a
                      \* row, counted up to FatalFailures
    main,             \* the command-line program (wmain): a record
    plist             \* the process enumerator (ProcessList main): a record

vars == <<m_audioClient, m_captureClient, m_capturing, m_captureThread,
          m_captureEvent, hAudioClient, callerPc, stopHr, destroyed,
          crashed, pending, nAct, cbPc, readyHr, thr, stream,
          nStart, nStop, queue, lastCall, sink, openEvents, openThreads,
          badCloses, comInit, punk, fails, main, plist>>

sessionVars == <<m_audioClient, m_captureClient, m_capturing, m_captureThread,
                 m_captureEvent>>
callerVars == <<callerPc, stopHr>>
cbVars == <<cbPc, readyHr, hAudioClient, nAct, punk>>
packetVars == <<queue, lastCall, sink>>
handleVars == <<openEvents, openThreads, badCloses, comInit>>
toolVars == <<main, plist>>

\* Bounds of the model.
MaxInit == 2        \* activations that Initialize calls submit
MaxPackets == 2     \* packets the platform queues in one stream
MaxArgLen == 2      \* characters of the process-id argument of wmain
MaxWindows == 2     \* top-level windows of an enumeration snapshot

Activations == 1..MaxInit
Threads == 1..MaxInit

\* Values of m_captureThread that are no thread handle of the process: the
\* field before its first assignment, and what a read of it may then yield.
Uninit == -1
Stray == -2

FAILED(hr) == hr \notin {"S_OK", "S_FALSE"}

EventHandles == {"captureReadyEvent", "stopEvent", "captureEvent"}

\* The packet the platform queues as the i-th packet of stream k.
Packet(k, i) == <<k, i>>

\* Failed packet queries in a row that the capture loop is to treat as a
\* fatal stream error.
FatalFailures == 3

\* The command-line program and the process enumerator are other programs
\* than the session: while they do not run, their records rest here.
MainOff == [pc |-> "off", argc |-> 0, arg1 |-> << >>, arg2 |-> "",
            processId |-> 0, include |-> TRUE, hr |-> "none",
            capture |-> "none", exitCode |-> -1]
ListOff == [pc |-> "off", windows |-> << >>, next |-> 0,
            windowApps |-> << >>, appsWithTitles |-> << >>, out |-> << >>]

SessionInit ==
    /\ m_audioClient = 0
    /\ m_captureClient = 0
    /\ m_capturing = FALSE
    /\ m_captureThread = Uninit
    /\ m_captureEvent = "evt"
    /\ hAudioClient = 0
    /\ callerPc = "idle"
    /\ stopHr = "none"
    /\ destroyed = FALSE
    /\ crashed = FALSE
    /\ pending = 0
    /\ nAct = 0
    /\ cbPc = "idle"
    /\ readyHr = "none"
    /\ thr = [t \in Threads |-> "none"]
    /\ stream = [k \in Activations |-> "none"]
    /\ nStart = 0
    /\ nStop = 0
    /\ queue = << >>
    /\ lastCall = "none"
    /\ sink = << >>
    /\ openEvents = EventHandles
    /\ openThreads = {}
    /\ badCloses = 0
    /\ comInit = 1
    /\ punk = 0
    /\ fails = 0

Init ==
    /\ SessionInit
    /\ main = MainOff
    /\ plist = ListOff

CallerLive == ~destroyed /\ ~crashed

\* LoopbackCapture::Initialize, lines 106-136: submits one asynchronous
\* activation and returns the HRESULT of the submission; a rejected
\* submission leaves nothing behind.
Initialize ==
    /\ CallerLive
    /\ callerPc = "idle"
    /\ pending + nAct < MaxInit
    /\ \E hr \in {"S_OK", "E_SUBMIT"} :
          pending' = IF FAILED(hr) THEN pending ELSE pending + 1
    /\ UNCHANGED <<callerVars, sessionVars, cbVars, destroyed, crashed, thr,
                   stream, nStart, nStop, packetVars, handleVars>>
    /\ UNCHANGED <<fails, toolVars>>

\* StopCapture is entered: control reaches the test of line 212.
StopCaptureCall ==
    /\ CallerLive
    /\ callerPc = "idle"
    /\ callerPc' = "l212"
    /\ UNCHANGED <<stopHr, sessionVars, cbVars, destroyed, crashed,
                   pending, thr, stream, nStart, nStop, packetVars,
                   handleVars>>
    /\ UNCHANGED <<fails, toolVars>>

\* StopCheck without the early return: the stop sequence runs whether or
\* not the session is capturing.
StopCheck_NoGuard ==
    /\ ~crashed
    /\ callerPc = "l212"
    /\ callerPc' = "l217"
    /\ UNCHANGED <<stopHr, sessionVars, cbVars, destroyed, crashed,
                   pending, thr, stream, nStart, nStop, packetVars,
                   handleVars>>
    /\ UNCHANGED <<fails, toolVars>>

\* Line 212: if (!m_capturing) return S_OK;
StopCheck ==
    /\ ~crashed
    /\ callerPc = "l212"
    /\ callerPc' = IF m_capturing THEN "l217" ELSE "l214"
    /\ UNCHANGED <<stopHr, sessionVars, cbVars, destroyed, crashed,
                   pending, thr, stream, nStart, nStop, packetVars,
                   handleVars>>
    /\ UNCHANGED <<fails, toolVars>>

\* Line 214: the early return of S_OK.
StopReturnNoop ==
    /\ ~crashed
    /\ callerPc = "l214"
    /\ callerPc' = "idle"
    /\ UNCHANGED <<stopHr, sessionVars, cbVars, destroyed, crashed, pending,
                   thr, stream, nStart, nStop, packetVars, handleVars>>
    /\ UNCHANGED <<fails, toolVars>>

\* Line 217: m_capturing = false;
StopClearFlag ==
    /\ ~crashed
    /\ callerPc = "l217"
    /\ m_capturing' = FALSE
    /\ callerPc' = "l218"
    /\ UNCHANGED <<stopHr, m_audioClient, m_captureClient,
                   m_captureThread, m_captureEvent, cbVars, destroyed,
                   crashed, pending, thr, stream, nStart, nStop,
                   packetVars, handleVars>>
    /\ UNCHANGED <<fails, toolVars>>

\* Lines 218-223: the thread handle is closed and forgotten; the thread is
\* not waited for.  m_captureThread has no initializer, so a read before
\* line 205 has assigned it yields NULL or a stray value.
StopCloseThread ==
    /\ ~crashed
    /\ callerPc = "l218"
    /\ \E h \in (IF m_captureThread = Uninit THEN {0, Stray}
                                              ELSE {m_captureThread}) :
          /\ openThreads' = openThreads \ {h}
          /\ badCloses' = IF h # 0 /\ h \notin openThreads
                             THEN badCloses + 1 ELSE badCloses
    /\ m_captureThread' = 0
    /\ callerPc' = "l225"
    /\ UNCHANGED <<stopHr, m_audioClient, m_captureClient,
                   m_capturing, m_captureEvent, cbVars, destroyed, crashed,
                   pending, thr, stream, nStart, nStop, packetVars,
                   openEvents, comInit>>
    /\ UNCHANGED <<fails, toolVars>>

\* Line 225: HRESULT hr = m_audioClient->Stop(); the call is in progress
\* while control is at l225.  Stop on a stream that is not running returns
\* S_FALSE; the platform may also fail the call.
StopStream ==
    /\ ~crashed
    /\ callerPc = "l225"
    /\ IF m_audioClient = 0
          THEN /\ crashed' = TRUE
               /\ UNCHANGED <<callerPc, stopHr, stream, nStop>>
          ELSE /\ nStop' = nStop + 1
               /\ callerPc' = "l226"
               /\ \/ /\ stream[m_audioClient] = "started"
                     /\ stream' = [stream EXCEPT ![m_audioClient] = "stopped"]
                     /\ stopHr' = "S_OK"
                  \/ /\ stream[m_audioClient] # "started"
                     /\ stopHr' = "S_FALSE"
                     /\ UNCHANGED stream
                  \/ /\ stopHr' = "E_STOP"
                     /\ UNCHANGED stream
               /\ UNCHANGED crashed
    /\ UNCHANGED <<sessionVars, cbVars, destroyed, pending,
                   thr, nStart, packetVars, handleVars>>
    /\ UNCHANGED <<fails, toolVars>>

\* Lines 226-227: CloseHandle(m_captureEvent); m_captureEvent = nullptr;
\* CloseHandle of a null handle fails and closes nothing.
StopCloseEvent ==
    /\ ~crashed
    /\ callerPc = "l226"
    /\ openEvents' = IF m_captureEvent = "evt"
                         THEN openEvents \ {"captureEvent"}
                         ELSE openEvents
    /\ m_captureEvent' = "NULL"
    /\ callerPc' = "l228"
    /\ UNCHANGED <<stopHr, m_audioClient, m_captureClient,
                   m_capturing, m_captureThread, cbVars, destroyed, crashed,
                   pending, thr, stream, nStart, nStop, packetVars,
                   openThreads, badCloses, comInit>>
    /\ UNCHANGED <<fails, toolVars>>

\* The value of the return statement at which StopCapture stands.
StopReturnValue ==
    CASE callerPc = "l214" -> "S_OK"
      [] callerPc = "l228" -> stopHr
      [] OTHER -> "none"

\* Line 228: return hr;
StopReturn ==
    /\ ~crashed
    /\ callerPc = "l228"
    /\ callerPc' = "idle"
    /\ stopHr' = "none"
    /\ UNCHANGED <<sessionVars, cbVars, destroyed, crashed, pending,
                   thr, stream, nStart, nStop, packetVars, handleVars>>
    /\ UNCHANGED <<fails, toolVars>>

\* ~LoopbackCapture, lines 97-104: the three event handles are closed (the
\* close of an m_captureEvent that StopCapture left null closes nothing) and
\* COM is uninitialized; nothing stops the stream or the capture thread.
Destroy ==
    /\ CallerLive
    /\ callerPc = "idle"
    /\ destroyed' = TRUE
    /\ openEvents' = openEvents \ EventHandles
    /\ comInit' = comInit - 1
    /\ UNCHANGED <<callerVars, sessionVars, cbVars, crashed, pending,
                   thr, stream, nStart, nStop, packetVars,
                   openThreads, badCloses>>
    /\ UNCHANGED <<fails, toolVars>>

(***************************************************************************)
(* The activation completion handler, run by a platform thread.            *)
(***************************************************************************)

\* The streams after a ComPtr has been reassigned or released: a stream that
\* neither the interface pointers refs nor the callback's punkAudioInterface
\* (held) refers to has lost its last reference and is gone.
ReleaseUnreferenced(refs, held) ==
    [k \in Activations |->
        IF stream[k] # "none" /\ k \notin refs /\ k \notin held
           THEN "released" ELSE stream[k]]

\* The platform invokes ActivateCompleted for one submitted activation; the
\* handler object outlives the session because the platform holds it.
CbDeliver ==
    /\ ~crashed
    /\ cbPc = "idle"
    /\ pending > 0
    /\ pending' = pending - 1
    /\ nAct' = nAct + 1
    /\ cbPc' = "l31"
    /\ UNCHANGED <<readyHr, hAudioClient, sessionVars, callerVars,
                   destroyed, crashed, thr, stream, nStart, nStop,
                   packetVars, handleVars>>
    /\ UNCHANGED <<punk, fails, toolVars>>

\* Lines 31-35: GetActivateResult and the test of its three results.
CbGetActivateResult ==
    /\ ~crashed
    /\ cbPc = "l31"
    /\ \E outcome \in {"ok", "hrFailed", "resultFailed", "nullInterface"} :
          IF outcome = "ok"
             THEN /\ stream' = [stream EXCEPT ![nAct] = "created"]
                  /\ punk' = 1
                  /\ cbPc' = "l38"
             ELSE /\ cbPc' = "l34"
                  /\ punk' \in (IF outcome = "nullInterface"
                                    THEN {0} ELSE {0, 1})
                  /\ UNCHANGED stream
    /\ UNCHANGED <<readyHr, hAudioClient, nAct, sessionVars, callerVars,
                   destroyed, crashed, pending, thr, nStart, nStop,
                   packetVars, handleVars>>
    /\ UNCHANGED <<fails, toolVars>>

\* CbQueryInterface without the return of line 42: a failed query falls
\* through to the hand-over of line 48.
CbQueryInterface_FallThrough ==
    /\ ~crashed
    /\ cbPc = "l38"
    /\ \/ /\ hAudioClient' = nAct
          /\ cbPc' = "l48"
       \/ /\ hAudioClient' = 0
          /\ cbPc' = "l48"
    /\ UNCHANGED <<readyHr, nAct, sessionVars, callerVars, destroyed,
                   crashed, pending, thr, stream, nStart, nStop,
                   packetVars, handleVars>>
    /\ UNCHANGED <<punk, fails, toolVars>>

\* Lines 38-43: QueryInterface into the handler's own m_audioClient.  The
\* test of m_parent at line 46 is constant: the constructor sets it.
CbQueryInterface ==
    /\ ~crashed
    /\ cbPc = "l38"
    /\ \/ /\ hAudioClient' = nAct
          /\ cbPc' = "l48"
          /\ UNCHANGED punk
       \/ /\ hAudioClient' = 0
          /\ punk' = punk - 1
          /\ cbPc' = "l42"
    /\ stream' = ReleaseUnreferenced({m_audioClient, m_captureClient}, {nAct})
    /\ UNCHANGED <<readyHr, nAct, sessionVars, callerVars, destroyed,
                   crashed, pending, thr, nStart, nStop, packetVars,
                   handleVars>>
    /\ UNCHANGED <<fails, toolVars>>

\* Line 48: m_parent->m_audioClient = m_audioClient; then line 49 calls
\* OnAudioClientReady.
CbStoreClient ==
    /\ ~crashed
    /\ cbPc = "l48"
    /\ m_audioClient' = hAudioClient
    /\ cbPc' = "l144"
    /\ stream' = ReleaseUnreferenced({hAudioClient, m_captureClient}, {nAct})
    /\ UNCHANGED <<readyHr, hAudioClient, nAct, m_captureClient,
                   m_capturing, m_captureThread, m_captureEvent, callerVars,
                   destroyed, crashed, pending, thr, nStart, nStop,
                   packetVars, handleVars>>
    /\ UNCHANGED <<punk, fails, toolVars>>

\* Lines 144-148: if (!m_audioClient) return E_FAIL;
CbReadyCheck ==
    /\ ~crashed
    /\ cbPc = "l144"
    /\ IF m_audioClient = 0
          THEN readyHr' = "E_FAIL" /\ cbPc' = "l52"
          ELSE readyHr' = readyHr /\ cbPc' = "l158"
    /\ UNCHANGED <<hAudioClient, nAct, sessionVars, callerVars,
                   destroyed, crashed, pending, thr, stream, nStart,
                   nStop, packetVars, handleVars>>
    /\ UNCHANGED <<punk, fails, toolVars>>

\* Lines 158-163: m_audioClient->Initialize with the fixed format; its
\* result is printed and then overwritten at line 165, never tested.
CbStreamInitialize ==
    /\ ~crashed
    /\ cbPc = "l158"
    /\ \/ /\ stream' = [stream EXCEPT ![m_audioClient] = "initialized"]
          /\ readyHr' = "S_OK"
       \/ /\ readyHr' = "E_INIT"
          /\ UNCHANGED stream
    /\ cbPc' = "l165"
    /\ UNCHANGED <<hAudioClient, nAct, sessionVars, callerVars,
                   destroyed, crashed, pending, thr, nStart, nStop,
                   packetVars, handleVars>>
    /\ UNCHANGED <<punk, fails, toolVars>>

\* Lines 165-177: GetBufferSize; a stream that was not initialized answers
\* AUDCLNT_E_NOT_INITIALIZED.
CbGetBufferSize ==
    /\ ~crashed
    /\ cbPc = "l165"
    /\ IF stream[m_audioClient] # "initialized"
          THEN /\ readyHr' = "AUDCLNT_E_NOT_INITIALIZED"
               /\ cbPc' = "l52"
          ELSE \/ /\ readyHr' = "S_OK"
                  /\ cbPc' = "l179a"
               \/ /\ readyHr' = "E_BUFSIZE"
                  /\ cbPc' = "l52"
    /\ UNCHANGED <<hAudioClient, nAct, sessionVars, callerVars,
                   destroyed, crashed, pending, thr, stream, nStart,
                   nStop, packetVars, handleVars>>
    /\ UNCHANGED <<punk, fails, toolVars>>

\* Line 179, first half: IID_PPV_ARGS(&m_captureClient) releases the
\* packet reader the field holds and leaves it null.
CbReleaseReader ==
    /\ ~crashed
    /\ cbPc = "l179a"
    /\ m_captureClient' = 0
    /\ cbPc' = "l179"
    /\ stream' = ReleaseUnreferenced({hAudioClient, m_audioClient}, {nAct})
    /\ UNCHANGED <<readyHr, hAudioClient, nAct, m_audioClient,
                   m_capturing, m_captureThread, m_captureEvent, callerVars,
                   destroyed, crashed, pending, thr, nStart, nStop,
                   packetVars, handleVars>>
    /\ UNCHANGED <<punk, fails, toolVars>>

\* Lines 179-183, second half: GetService stores the packet reader of the
\* new stream, whose queue is empty.
CbGetService ==
    /\ ~crashed
    /\ cbPc = "l179"
    /\ \/ /\ m_captureClient' = m_audioClient
          /\ queue' = << >>
          /\ lastCall' = "none"
          /\ fails' = 0
          /\ readyHr' = "S_OK"
          /\ cbPc' = "l196"
       \/ /\ m_captureClient' = 0
          /\ readyHr' = "E_NOSERVICE"
          /\ cbPc' = "l52"
          /\ UNCHANGED <<queue, lastCall, fails>>
    /\ UNCHANGED <<hAudioClient, nAct, m_audioClient, m_capturing,
                   m_captureThread, m_captureEvent, callerVars, destroyed,
                   crashed, pending, thr, stream, nStart, nStop, sink,
                   handleVars>>
    /\ UNCHANGED <<punk, toolVars>>

\* Lines 196-200: m_audioClient->Start().
CbStreamStart ==
    /\ ~crashed
    /\ cbPc = "l196"
    /\ \/ /\ stream' = [stream EXCEPT ![m_audioClient] = "started"]
          /\ nStart' = nStart + 1
          /\ readyHr' = "S_OK"
          /\ cbPc' = "l204"
       \/ /\ readyHr' = "E_START"
          /\ cbPc' = "l52"
          /\ UNCHANGED <<stream, nStart>>
    /\ UNCHANGED <<hAudioClient, nAct, sessionVars, callerVars,
                   destroyed, crashed, pending, thr, nStop, packetVars,
                   handleVars>>
    /\ UNCHANGED <<punk, fails, toolVars>>

\* Line 204: m_capturing = true;
CbSetCapturing ==
    /\ ~crashed
    /\ cbPc = "l204"
    /\ m_capturing' = TRUE
    /\ cbPc' = "l205"
    /\ UNCHANGED <<readyHr, hAudioClient, nAct, m_audioClient,
                   m_captureClient, m_captureThread, m_captureEvent,
                   callerVars, destroyed, crashed, pending, thr,
                   stream, nStart, nStop, packetVars, handleVars>>
    /\ UNCHANGED <<punk, fails, toolVars>>

ThreadsCreated == {t \in Threads : thr[t] # "none"}

\* Lines 205-207: CreateThread; its result is stored and never tested, and
\* OnAudioClientReady returns the hr of Start.
CbCreateThread ==
    /\ ~crashed
    /\ cbPc = "l205"
    /\ \/ \E t \in Threads :
             /\ t = Cardinality(ThreadsCreated) + 1
             /\ thr' = [thr EXCEPT ![t] = "l261"]
             /\ openThreads' = openThreads \cup {t}
             /\ m_captureThread' = t
       \/ /\ m_captureThread' = 0
          /\ UNCHANGED <<thr, openThreads>>
    /\ cbPc' = "l52"
    /\ UNCHANGED <<readyHr, hAudioClient, nAct, m_audioClient,
                   m_captureClient, m_capturing, m_captureEvent, callerVars,
                   destroyed, crashed, pending, stream, nStart, nStop,
                   packetVars, openEvents, badCloses, comInit>>
    /\ UNCHANGED <<punk, fails, toolVars>>

\* Line 52: punkAudioInterface->Release(); the value OnAudioClientReady
\* returned at line 49 has been dropped.
CbRelease ==
    /\ ~crashed
    /\ cbPc = "l52"
    /\ punk' = punk - 1
    /\ cbPc' = "l55"
    /\ UNCHANGED <<readyHr, hAudioClient, nAct, sessionVars, callerVars,
                   destroyed, crashed, pending, thr, stream, nStart,
                   nStop, packetVars, handleVars>>
    /\ UNCHANGED <<fails, toolVars>>

\* The value of the return statement at which ActivateCompleted stands.
CbReturnValue ==
    CASE cbPc = "l34" -> "E_FAIL"
      [] cbPc = "l42" -> "E_NOINTERFACE"
      [] cbPc = "l55" -> "S_OK"
      [] OTHER -> "none"

\* Lines 34, 42 and 55: ActivateCompleted returns to the platform; the
\* reference of punkAudioInterface is gone by then.
CbReturn ==
    /\ ~crashed
    /\ cbPc \in {"l34", "l42", "l55"}
    /\ readyHr' = "none"
    /\ punk' = 0
    /\ cbPc' = "idle"
    /\ stream' = ReleaseUnreferenced(
                     {hAudioClient, m_audioClient, m_captureClient}, {})
    /\ UNCHANGED <<hAudioClient, nAct, sessionVars, callerVars, destroyed,
                   crashed, pending, thr, nStart, nStop, packetVars,
                   handleVars>>
    /\ UNCHANGED <<fails, toolVars>>

(***************************************************************************)
(* The capture thread (CaptureThreadProc, CaptureThread) and the platform. *)
(***************************************************************************)

\* Lines 261-263: while (m_capturing) { Sleep(10); ... the flag is read, and
\* a set flag leads into the call of line 277.  The flag of a destroyed
\* session is freed storage: the read yields either value.
ThreadCheck(t) ==
    /\ ~crashed
    /\ thr[t] = "l261"
    /\ \E flag \in (IF destroyed THEN BOOLEAN ELSE {m_capturing}) :
          thr' = [thr EXCEPT ![t] = IF flag THEN "l277" ELSE "exited"]
    /\ UNCHANGED <<sessionVars, callerVars, cbVars, destroyed, crashed,
                   pending, stream, nStart, nStop, packetVars,
                   handleVars>>
    /\ UNCHANGED <<fails, toolVars>>

\* Lines 276-281: m_captureClient->GetNextPacketSize(&packetLength); the
\* call is in progress while control is at l277.  Whatever it reports, the
\* body ends here (the drain of lines 283-304 is commented out) and control
\* returns to the loop test.
ThreadGetNextPacketSize(t) ==
    /\ ~crashed
    /\ thr[t] = "l277"
    /\ IF m_captureClient = 0
          THEN /\ crashed' = TRUE
               /\ UNCHANGED <<thr, lastCall, fails>>
          ELSE /\ thr' = [thr EXCEPT ![t] = "l261"]
               /\ \/ /\ lastCall' = IF queue = << >> THEN "size0"
                                                      ELSE "sizeN"
                     /\ fails' = 0
                  \/ /\ lastCall' = "failed"
                     /\ fails' = IF fails < FatalFailures
                                    THEN fails + 1 ELSE fails
               /\ UNCHANGED crashed
    /\ UNCHANGED <<sessionVars, callerVars, cbVars, destroyed, pending,
                   stream, nStart, nStop, queue, sink, handleVars>>
    /\ UNCHANGED toolVars

\* The platform queues one more packet in the running stream that the
\* packet reader belongs to.
Produce ==
    /\ ~crashed
    /\ m_captureClient # 0
    /\ stream[m_captureClient] = "started"
    /\ Len(queue) < MaxPackets
    /\ queue' = Append(queue, Packet(m_captureClient, Len(queue) + 1))
    /\ UNCHANGED <<sessionVars, callerVars, cbVars, destroyed, crashed,
                   pending, thr, stream, nStart, nStop, lastCall, sink,
                   handleVars>>
    /\ UNCHANGED <<fails, toolVars>>

\* Lines of OnAudioClientReady and of ActivateCompleted that go through
\* m_parent.
ParentLines == {"l48", "l144", "l158", "l165", "l179a", "l179", "l196",
                "l204", "l205"}

ThreadsLive == {t \in Threads : thr[t] \in {"l261", "l277"}}

\* A capture thread or a callback that goes through the destroyed session
\* may bring the process down.
UseAfterDestroy ==
    /\ ~crashed
    /\ destroyed
    /\ ThreadsLive # {} \/ cbPc \in ParentLines
    /\ crashed' = TRUE
    /\ UNCHANGED <<sessionVars, callerVars, cbVars, destroyed, pending,
                   thr, stream, nStart, nStop, packetVars, handleVars>>
    /\ UNCHANGED <<fails, toolVars>>

Next ==
    \/ Initialize
    \/ StopCaptureCall
    \/ StopCheck
    \/ StopReturnNoop
    \/ StopClearFlag
    \/ StopCloseThread
    \/ StopStream
    \/ StopCloseEvent
    \/ StopReturn
    \/ Destroy
    \/ CbDeliver
    \/ CbGetActivateResult
    \/ CbQueryInterface
    \/ CbStoreClient
    \/ CbReadyCheck
    \/ CbStreamInitialize
    \/ CbGetBufferSize
    \/ CbReleaseReader
    \/ CbGetService
    \/ CbStreamStart
    \/ CbSetCapturing
    \/ CbCreateThread
    \/ CbRelease
    \/ CbReturn
    \/ \E t \in Threads : ThreadCheck(t)
    \/ \E t \in Threads : ThreadGetNextPacketSize(t)
    \/ Produce
    \/ UseAfterDestroy

Spec == Init /\ [][Next]_vars

\* The steps of code that is running: a StopCapture that has been entered,
\* a callback the platform has been asked for, and the capture threads.
\* The operating system schedules every runnable thread again and again,
\* and the platform calls back for every activation it accepted.  What the
\* caller decides to call (Initialize, StopCapture, the destructor), the
\* arrival of audio and the outcome of a use of freed memory are not bound
\* to happen.
CallerStep ==
    \/ StopCheck
    \/ StopReturnNoop
    \/ StopClearFlag
    \/ StopCloseThread
    \/ StopStream
    \/ StopCloseEvent
    \/ StopReturn

CallbackStep ==
    \/ CbDeliver
    \/ CbGetActivateResult
    \/ CbQueryInterface
    \/ CbStoreClient
    \/ CbReadyCheck
    \/ CbStreamInitialize
    \/ CbGetBufferSize
    \/ CbReleaseReader
    \/ CbGetService
    \/ CbStreamStart
    \/ CbSetCapturing
    \/ CbCreateThread
    \/ CbRelease
    \/ CbReturn

ThreadStep(t) == ThreadCheck(t) \/ ThreadGetNextPacketSize(t)

FairSpec ==
    /\ Spec
    /\ WF_vars(CallerStep)
    /\ WF_vars(CallbackStep)
    /\ \A t \in Threads : WF_vars(ThreadStep(t))

(***************************************************************************)
(* The command-line program: wmain of ApplicationLoopback.cpp.  Its        *)
(* capture object is a CLoopbackCapture, whose code is not in the source   *)
(* tree; StartCaptureAsync and the asynchronous completion are modelled    *)
(* from the specification of Start (section 4.2) and of the session        *)
(* lifecycle: Start returns at once, fails synchronously only when the     *)
(* activation cannot be submitted, and the session later becomes Running   *)
(* or Failed.                                                              *)
(***************************************************************************)

sessionAll == <<sessionVars, callerVars, cbVars, packetVars, handleVars,
                destroyed, crashed, pending, thr, stream, nStart, nStop,
                fails>>

\* Characters of a command-line argument, and their digit values.
ArgChars == {"0", "1", "x"}
DigitValue(c) == IF c = "1" THEN 1 ELSE 0
IsDigit(c) == c \in {"0", "1"}

RECURSIVE ArgStringsOfLen(_)
ArgStringsOfLen(n) ==
    IF n = 0 THEN {<< >>}
    ELSE {Append(a, c) : a \in ArgStringsOfLen(n - 1), c \in ArgChars}

ArgStrings == UNION {ArgStringsOfLen(n) : n \in 0..MaxArgLen}

\* The value of the longest prefix of s made of digits, in the given base.
RECURSIVE DigitsValue(_, _, _)
DigitsValue(s, base, acc) ==
    IF s = << >> \/ ~IsDigit(Head(s))
       THEN acc
       ELSE DigitsValue(Tail(s), base, acc * base + DigitValue(Head(s)))

\* Line 20: wcstoul(argv[1], nullptr, 0), stored in a DWORD.  Base 0 reads
\* a leading "0x" with a digit behind it as hexadecimal, another leading
\* "0" as octal and anything else as decimal; a string that starts with no
\* digit yields 0.  The values of strings this short fit the DWORD.
wcstoul(s) ==
    LET hex == Len(s) >= 3 /\ s[1] = "0" /\ s[2] = "x" /\ IsDigit(s[3])
        oct == Len(s) >= 1 /\ s[1] = "0"
    IN  IF hex THEN DigitsValue(SubSeq(s, 3, Len(s)), 16, 0)
        ELSE IF oct THEN DigitsValue(s, 8, 0)
        ELSE DigitsValue(s, 10, 0)

Modes == {"include", "exclude", "other"}

\* The command lines the program is started with.
MainStarts ==
    {[MainOff EXCEPT !.pc = "l14", !.argc = n, !.arg1 = a, !.arg2 = m] :
        n \in 1..3, a \in ArgStrings, m \in Modes}

MainInit ==
    /\ SessionInit
    /\ plist = ListOff
    /\ main \in {st \in MainStarts :
                   /\ st.argc < 2 => st.arg1 = << >>
                   /\ st.argc < 3 => st.arg2 = "other"}

MainExit(code) == main' = [main EXCEPT !.pc = "exit", !.exitCode = code]

\* Lines 14-18: without an argument the usage text is printed.
MainUsage ==
    /\ main.pc = "l14"
    /\ IF main.argc < 2
          THEN MainExit(0)
          ELSE main' = [main EXCEPT !.pc = "l20"]
    /\ UNCHANGED <<sessionAll, plist>>

\* Lines 20-25: the process id is parsed; 0 is refused.
MainProcessId ==
    /\ main.pc = "l20"
    /\ LET id == wcstoul(main.arg1)
       IN  IF id = 0
              THEN main' = [main EXCEPT !.pc = "exit", !.exitCode = 1,
                                        !.processId = id]
              ELSE main' = [main EXCEPT !.pc = "l27", !.processId = id]
    /\ UNCHANGED <<sessionAll, plist>>

\* Lines 27-32: the mode; everything but "exclude" means include.
MainMode ==
    /\ main.pc = "l27"
    /\ main' = [main EXCEPT
                  !.pc = "l34",
                  !.include = ~(main.argc >= 3 /\ main.arg2 = "exclude")]
    /\ UNCHANGED <<sessionAll, plist>>

\* Lines 34-38: _setmode of stdout.
MainSetMode ==
    /\ main.pc = "l34"
    /\ \/ main' = [main EXCEPT !.pc = "l41"]
       \/ MainExit(1)
    /\ UNCHANGED <<sessionAll, plist>>

\* Lines 40-41: the capture object is made and StartCaptureAsync called;
\* it submits the activation and returns, or fails to submit it.
MainStartCaptureAsync ==
    /\ main.pc = "l41"
    /\ \/ main' = [main EXCEPT !.pc = "l42", !.hr = "S_OK",
                                !.capture = "activating"]
       \/ main' = [main EXCEPT !.pc = "l42", !.hr = "E_SUBMIT",
                                !.capture = "failed"]
    /\ UNCHANGED <<sessionAll, plist>>

\* Lines 42-49: a failed start is reported and the program exits with 1.
MainCheckStart ==
    /\ main.pc = "l42"
    /\ IF FAILED(main.hr)
          THEN MainExit(1)
          ELSE main' = [main EXCEPT !.pc = "l51"]
    /\ UNCHANGED <<sessionAll, plist>>

\* The asynchronous part of the capture while wmain runs on: the
\* activation completes and the capture runs, or the activation or the
\* initialization of the stream fails.
MainCaptureCompletes ==
    /\ main.pc \in {"l42", "l51"}
    /\ main.capture = "activating"
    /\ \E outcome \in {"running", "failed"} :
          main' = [main EXCEPT !.capture = outcome]
    /\ UNCHANGED <<sessionAll, plist>>

\* Lines 51-52: getchar returns on a character or on the end of the input,
\* and wmain returns 0.
MainGetchar ==
    /\ main.pc = "l51"
    /\ MainExit(0)
    /\ UNCHANGED <<sessionAll, plist>>

MainNext ==
    \/ MainUsage
    \/ MainProcessId
    \/ MainMode
    \/ MainSetMode
    \/ MainStartCaptureAsync
    \/ MainCheckStart
    \/ MainCaptureCompletes
    \/ MainGetchar

MainSpec == MainInit /\ [][MainNext]_vars

(***************************************************************************)
(* The process enumerator: main, EnumWindowsProc and                       *)
(* PrintApplicationsWithWindows of ProcessList.cpp.  The platform hands    *)
(* the top-level windows of its snapshot to EnumWindowsProc one by one.    *)
(***************************************************************************)

\* Size of the title buffer of line 38.
TitleBuffer == 256

Titles == {<< >>, <<"a">>, <<"b">>}

\* The windows a snapshot may hold.  The window at place i has the handle
\* HandleOf(i): a handle is a pair of 32-bit halves <<high, low>>, and the
\* platform keeps window handles within the low half.
WindowKinds == [visible : BOOLEAN, title : Titles, processId : 1..MaxWindows]

HandleOf(i) == <<0, i>>

RECURSIVE SnapshotsOfLen(_)
SnapshotsOfLen(n) ==
    IF n = 0 THEN {<< >>}
    ELSE {Append(w, k) : w \in SnapshotsOfLen(n - 1), k \in WindowKinds}

Snapshots == UNION {SnapshotsOfLen(n) : n \in 0..MaxWindows}

\* Line 39: GetWindowTextA copies the title into the buffer, cut to what
\* the buffer holds besides the terminating zero.
GetWindowTextA(title) ==
    SubSeq(title, 1, IF Len(title) < TitleBuffer - 1
                        THEN Len(title) ELSE TitleBuffer - 1)

\* Line 84: (unsigned long) of a window handle keeps its low 32 bits.
UnsignedLong(h) == h[2]

ListInit ==
    /\ SessionInit
    /\ main = MainOff
    /\ plist \in {[ListOff EXCEPT !.pc = "l96", !.windows = w, !.next = 1] :
                    w \in Snapshots}

\* EnumWindowsProc that leaves out the test of IsWindowVisible at line 36.
ListEnumWindowsProc_NoVisibleTest ==
    /\ plist.pc = "l96"
    /\ plist.next <= Len(plist.windows)
    /\ LET hwnd == HandleOf(plist.next)
           w == plist.windows[plist.next]
           windowTitle == GetWindowTextA(w.title)
           info == [windowHandle |-> hwnd, windowTitle |-> windowTitle,
                    processId |-> w.processId]
       IN  plist' = [plist EXCEPT
                       !.next = @ + 1,
                       !.windowApps =
                           IF Len(windowTitle) > 0
                              THEN Append(@, info) ELSE @]
    /\ UNCHANGED <<sessionAll, main>>

\* Lines 31-76: EnumWindowsProc for the next window of the snapshot: a
\* visible window with a title of positive length is appended, and TRUE is
\* returned to go on.
ListEnumWindowsProc ==
    /\ plist.pc = "l96"
    /\ plist.next <= Len(plist.windows)
    /\ LET hwnd == HandleOf(plist.next)
           w == plist.windows[plist.next]
           windowTitle == GetWindowTextA(w.title)
           info == [windowHandle |-> hwnd, windowTitle |-> windowTitle,
                    processId |-> w.processId]
       IN  plist' = [plist EXCEPT
                       !.next = @ + 1,
                       !.windowApps =
                           IF w.visible /\ Len(windowTitle) > 0
                              THEN Append(@, info) ELSE @]
    /\ UNCHANGED <<sessionAll, main>>

\* Lines 98-106: when EnumWindows has returned, the entries with a
\* non-empty title are copied, in order.
ListFilter ==
    /\ plist.pc = "l96"
    /\ plist.next > Len(plist.windows)
    /\ LET HasTitle(app) == app.windowTitle # << >>
       IN  plist' = [plist EXCEPT
                       !.pc = "l108",
                       !.appsWithTitles = SelectSeq(plist.windowApps,
                                                    HasTitle)]
    /\ UNCHANGED <<sessionAll, main>>

\* Lines 78-87 and 108-110: one line "processId;windowHandle;windowTitle"
\* for each entry, in order.
ListPrint ==
    /\ plist.pc = "l108"
    /\ plist' = [plist EXCEPT
                   !.pc = "exit",
                   !.out = [i \in 1..Len(plist.appsWithTitles) |->
                              <<plist.appsWithTitles[i].processId,
                                UnsignedLong(
                                    plist.appsWithTitles[i].windowHandle),
                                plist.appsWithTitles[i].windowTitle>>]]
    /\ UNCHANGED <<sessionAll, main>>

ListNext ==
    \/ ListEnumWindowsProc
    \/ ListFilter
    \/ ListPrint

ListSpec == ListInit /\ [][ListNext]_vars

(***************************************************************************)
(* Properties.                                                             *)
(***************************************************************************)

CbReturning == cbPc \in {"l34", "l42", "l55"}
StreamCallLines == {"l158", "l165", "l179a", "l179", "l196"}
StopBodyLines == {"l217", "l218", "l225", "l226", "l228"}

\* C1: when ActivateCompleted returns, the session has gone Running
\* (OnAudioClientReady ran to its end and every started stream has its
\* capture thread) or a failure code is reported.  The session has no state
\* or error field; the one value that leaves the callback is its HRESULT.
C1_RunningOrFailed ==
    CbReturning =>
        \/ FAILED(CbReturnValue)
        \/ readyHr = "S_OK" /\ Cardinality(ThreadsCreated) = nStart

\* C2: when StopCapture returns on its full path (line 228), every capture
\* thread has observed the cleared flag and left its loop.
C2_StopJoinsThread == callerPc = "l228" => ThreadsLive = {}

\* C3: no capture thread is inside a packet-reader call while the caller is
\* inside the stream's Stop or the callback is inside a stream call of
\* OnAudioClientReady.
C3_NoConcurrentStreamUse ==
    ~ /\ \E t \in Threads : thr[t] = "l277"
      /\ callerPc = "l225" \/ cbPc \in StreamCallLines

\* C4: StopCapture is idempotent.  A StopCapture on a session that an
\* earlier StopCapture left not capturing takes the early return, changes
\* neither the session nor the platform (no handle closed, no stream Stop,
\* no thread touched), leaves the session not capturing and returns S_OK;
\* and the stream is never stopped more often than it was started.
C4_StopIdempotent ==
    [][ /\ (callerPc = "l212" /\ ~m_capturing /\ callerPc' # "l212")
           => /\ callerPc' = "l214"
              /\ ~m_capturing'
              /\ UNCHANGED <<sessionVars, stream, nStop, thr, handleVars>>
        /\ (callerPc = "l214" /\ callerPc' = "idle")
           => /\ StopReturnValue = "S_OK"
              /\ UNCHANGED <<sessionVars, stream, nStop, thr, handleVars>>
        /\ nStop' <= nStart'
      ]_vars

\* After the one activation of the session and one full StopCapture (the
\* stream stopped, m_captureEvent closed and nulled), the next StopCapture
\* stands at its early return.
C4_Witness ==
    /\ callerPc = "l214"
    /\ nAct = 1
    /\ pending = 0
    /\ cbPc = "idle"
    /\ nStop = 1
    /\ m_captureEvent = "NULL"
    /\ ~m_capturing

\* C5: when OnAudioClientReady has ended, a stream whose Initialize failed
\* has ended the chain with the error code of Initialize, and a chain that
\* ended in failure has not started the stream or a thread for it.
C5_InitFailureCode ==
    (cbPc = "l52" /\ m_audioClient = nAct) =>
        /\ stream[nAct] = "created" => readyHr = "E_INIT"
        /\ FAILED(readyHr) => stream[nAct] # "started"

\* The activation of the running callback has failed: GetActivateResult
\* gave no stream, or QueryInterface gave no stream-control interface.
ActivationFailed ==
    \/ cbPc \notin {"idle", "l31"} /\ stream[nAct] = "none"
    \/ cbPc \notin {"idle", "l31", "l38"} /\ hAudioClient # nAct

\* C6: a callback whose activation failed stands at a failing return and
\* stores no handle in the session, its steps change neither the session
\* nor the threads, and it returns a failure code; and as long as no handle
\* is stored the session is not capturing, has no thread, and StopCapture
\* takes only its early return, returns S_OK, calls no stream Stop and
\* closes no handle.
C6_ActivationFailure ==
    [][ /\ ActivationFailed' => cbPc' \in {"l34", "l42"} /\ m_audioClient' # nAct'
        /\ (ActivationFailed' /\ cbPc' # cbPc)
           => UNCHANGED <<sessionVars, thr, openThreads>>
        /\ (ActivationFailed /\ cbPc' = "idle") => FAILED(CbReturnValue)
        /\ m_audioClient' = 0
           => /\ ~m_capturing'
              /\ ThreadsCreated' = {}
              /\ nStop' = 0
              /\ callerPc' \notin StopBodyLines
              /\ ~destroyed' => openEvents' = EventHandles
              /\ (callerPc # "idle" /\ callerPc' = "idle")
                 => StopReturnValue = "S_OK"
      ]_vars

\* The only activation has failed in GetActivateResult and the callback
\* has returned, no handle is stored, and a StopCapture stands at its early
\* return.
C6_Witness ==
    /\ cbPc = "idle"
    /\ nAct = 1
    /\ pending = 0
    /\ stream[1] = "none"
    /\ m_audioClient = 0
    /\ callerPc = "l214"

\* C7: a drain cycle (one pass of the loop body whose packet query
\* succeeds) hands every queued packet to the sink, in order, once, and
\* leaves the queue empty.
C7_DrainDeliversAll ==
    [][ \A t \in Threads :
          (thr[t] = "l277" /\ thr'[t] = "l261" /\ lastCall' # "failed")
             => sink' = sink \o queue /\ queue' = << >>
      ]_vars

\* C8: the thread issues GetNextPacketSize only when the packet the last
\* query reported has been fetched and released: the last packet-reader
\* call the stream saw is not a query that reported a packet.
C8_ReleaseBeforeNextQuery ==
    [][ \A t \in Threads :
          (thr[t] = "l261" /\ thr'[t] = "l277") => lastCall # "sizeN"
      ]_vars

\* C9: the destruction of a Running session (capturing, with a capture
\* thread in its loop) leaves no capture thread in its loop and no stream
\* running.
C9_DestructorStops ==
    [][ (~destroyed /\ destroyed' /\ m_capturing /\ ThreadsLive # {})
           => /\ ThreadsLive' = {}
              /\ \A k \in Activations : stream'[k] # "started"
      ]_vars

\* C10: when the session has been destroyed every handle it acquired has
\* been released exactly once and COM has been uninitialized once: no
\* handle is left open and no close hit a value that is no handle of ours.
C10_ReleasedExactlyOnce ==
    [][ (~destroyed /\ destroyed')
           => /\ openEvents' = {}
              /\ openThreads' = {}
              /\ comInit' = 0
              /\ badCloses' = 0
      ]_vars

\* C11: in every reachable state of a session that is alive, a capture
\* thread is in its loop if and only if m_capturing is true.
C11_ThreadIffCapturing ==
    (~destroyed /\ ~crashed) => (m_capturing <=> ThreadsLive # {})

\* C12: m_audioClient is written only while it is null (it becomes non-null
\* at most once and is never reassigned), and a session submits at most one
\* activation request, however often Initialize is called.
C12_SingleHandle ==
    [][ /\ m_audioClient # 0 => m_audioClient' = m_audioClient
        /\ pending' + nAct' <= 1
      ]_vars

\* A full StopCapture has completed on the session: the capture event was
\* closed by line 226 and that call is past its return.
HasStopped == m_captureEvent = "NULL" /\ callerPc # "l228"

\* The latest activation has completed with a failure: its callback has
\* returned and stored no stream-control object in the session.
HasFailed == cbPc = "idle" /\ nAct > 0 /\ m_audioClient # nAct

\* C13: once the session has reached Stopped or Failed, no step submits an
\* activation, sets m_capturing, starts a stream or creates a capture
\* thread.
C13_TerminalAbsorbing ==
    [][ (HasStopped \/ HasFailed)
           => /\ pending' <= pending
              /\ m_capturing' => m_capturing
              /\ nStart' = nStart
              /\ ThreadsCreated' = ThreadsCreated
      ]_vars

\* C14: the capture thread of a session (the only thread that queries the
\* packet reader) goes on with its loop when a packet query fails and fewer
\* than three queries in a row have failed, and ends with the third failure
\* in a row.
C14_ThreeFailuresFatal ==
    [][ \A t \in Threads :
          (ThreadsCreated = {t} /\ thr[t] = "l277" /\ fails' > fails)
             => IF fails' < FatalFailures
                   THEN thr'[t] = "l261"
                   ELSE thr'[t] = "exited"
      ]_vars

\* C15: at every return statement of ActivateCompleted the callback holds
\* no reference on the object GetActivateResult returned: what it received
\* it has released.
C15_ResultReleased == CbReturning => punk = 0

\* C16: when the command-line program has started a capture and exits, it
\* exits with 1 if the capture failed, at the start call or later, and with
\* 0 otherwise.
C16_ExitCode ==
    (main.pc = "exit" /\ main.capture # "none")
       => (main.exitCode = 1 <=> main.capture = "failed")

\* The windows of the snapshot that are visible, as records of the output.
RECURSIVE VisibleRecords(_, _)
VisibleRecords(w, i) ==
    IF i > Len(w) THEN << >>
    ELSE (IF w[i].visible
             THEN << <<w[i].processId, i, w[i].title>> >>
             ELSE << >>) \o VisibleRecords(w, i + 1)

\* The visible windows of the snapshot that have a title, as records.
RECURSIVE TitledRecords(_, _)
TitledRecords(w, i) ==
    IF i > Len(w) THEN << >>
    ELSE (IF w[i].visible /\ w[i].title # << >>
             THEN << <<w[i].processId, i, w[i].title>> >>
             ELSE << >>) \o TitledRecords(w, i + 1)

\* C17 as stated: the output is one record for each visible window of the
\* snapshot, in the order of the enumeration.
C17_OnePerVisibleWindow ==
    plist.pc = "exit" => plist.out = VisibleRecords(plist.windows, 1)

\* C17 as the code has it: the output is one record for each visible window
\* with a non-empty title, in the order of the enumeration, duplicates of
\* process id or title included.
C17_OnePerTitledWindow ==
    plist.pc = "exit" => plist.out = TitledRecords(plist.windows, 1)

\* Two windows of one process with one title, and both printed.
C17_Witness ==
    /\ plist.pc = "exit"
    /\ Len(plist.out) = 2
    /\ plist.out[1][1] = plist.out[2][1]
    /\ plist.out[1][3] = plist.out[2][3]

\* C18, the two orderings: a capture thread enters a packet query only
\* while m_capturing is true, and leaves its loop only while m_capturing is
\* false (the flag of a destroyed session is a use of freed memory and is
\* left out).
C18_ObservesFlag ==
    [][ ~destroyed =>
          \A t \in Threads :
             /\ (thr[t] = "l261" /\ thr'[t] = "l277") => m_capturing
             /\ (thr[t] # "exited" /\ thr'[t] = "exited") => ~m_capturing
      ]_vars

\* C18: under fair scheduling, once StopCapture has cleared m_capturing
\* (control has passed line 217), every capture thread that is in its loop
\* eventually terminates, unless the session is destroyed or the process
\* dies first.
C18_StopTerminatesThread ==
    \A t \in Threads :
       (callerPc = "l218" /\ thr[t] \in {"l261", "l277"})
          ~> (thr[t] = "exited" \/ crashed \/ destroyed)

\* C19: whenever m_capturing is true, m_audioClient and m_captureClient are
\* both non-null, so that neither the Stop call of StopCapture nor a packet
\* query of a capture thread meets a null pointer.
C19_HandlesPublished ==
    /\ m_capturing => m_audioClient # 0 /\ m_captureClient # 0
    /\ callerPc = "l225" => m_audioClient # 0
    /\ \A t \in Threads : thr[t] = "l277" => m_captureClient # 0

\* StopCapture stands at a return statement that returns success.
StopReturnsSuccess ==
    callerPc \in {"l214", "l228"} /\ ~FAILED(StopReturnValue)

\* C20: once a StopCapture has returned success (control stood at a return
\* of success and the caller is idle again), the number of stream starts
\* and the number of capture threads created stay what they are for as
\* long as the session exists.
C20_NoStartAfterStop ==
    \A n \in 0..MaxInit : \A c \in 0..MaxInit :
       [](StopReturnsSuccess
            => []((callerPc = "idle" /\ nStart = n
                     /\ Cardinality(ThreadsCreated) = c)
                    => [](\/ destroyed
                          \/ nStart = n /\ Cardinality(ThreadsCreated) = c)))

====
